---- MODULE Spec2Model ----
(***************************************************************************)
(* Model of the two Streamlit scripts of phelps_path_to_gold:              *)
(*   src/app.py       ("app")      animated cumulative stacked medal chart *)
(*                                 and Individual-vs-Relay histogram       *)
(*   src/data/app.py  ("timeline") scatter timeline with Medal_Count       *)
(* One render pass of a script is one run of its main(); the state is the  *)
(* CSV file on disk, the locals of main() and of the functions it calls,   *)
(* and the list of elements written to the page.                           *)
(* Strings whose characters the code inspects or produces (event names,    *)
(* str(year)) are sequences of one-character strings.  The Time and Note   *)
(* columns are carried through by the code unread and are left out.        *)
(***************************************************************************)
EXTENDS Integers, Sequences, FiniteSets, TLC

(* ---------- bounds of the input tables ---------- *)
MaxRows == 2
NumYears == 2
NumDates == 3
MaxTimelineRows == 3

(* Games years: 2000, 2004, ... *)
Years == {2000 + 4 * k : k \in 0..(NumYears - 1)}

(* The text of a Medal cell in the CSV file. *)
MedalCells == {"Gold", "Silver", "Bronze", "None"}

MedleyRelay ==
  <<"M","e","n"," ","4","x","1","0","0"," ","M","e","d","l","e","y"," ","R","e","l","a","y">>
Butterfly ==
  <<"M","e","n"," ","2","0","0"," ","B","u","t","t","e","r","f","l","y">>
LowerRelay ==
  <<"M","e","n"," ","4","x","2","0","0"," ","r","e","l","a","y">>
Events == {MedleyRelay, Butterfly, LowerRelay}

(* Rows of mp_olympics_medals_data.csv (src/app.py). *)
CsvRows == [Year : Years, Event : Events, Medal : MedalCells]

(* Rows of data/mp_olympics_medals.csv (src/data/app.py); a Date cell is   *)
(* its year, month and day fields.                                          *)
DateCells == {<<2000 + 4 * (k \div 2), 8, 14 + (k % 2)>> : k \in 0..(NumDates - 1)}
TimelineEvents == {Butterfly}
TimelineRows == [Date : DateCells, Event : TimelineEvents, Medal : {"Gold", "None"}]

SeqsUpTo(S, n) == UNION {[1..k -> S] : k \in 0..n}

Tables == SeqsUpTo(CsvRows, MaxRows)
TimelineTables == SeqsUpTo(TimelineRows, MaxTimelineRows)

(* ---------- pandas / Python helpers ---------- *)

NaN == "NaN"
NaValues == {"", "NA", "N/A", "NULL", "NaN", "None", "nan", "null"}

(* pd.read_csv: a cell whose text is one of the default NA strings is read *)
(* as NaN, any other text is kept.                                         *)
ReadCell(text) == IF text \in NaValues THEN NaN ELSE text

ReadCsv(table) ==
  [k \in DOMAIN table |-> [table[k] EXCEPT !.Medal = ReadCell(table[k].Medal)]]

ValidMedals == {"Gold", "Silver", "Bronze"}

(* variant of IsMedal: missing values pass the filter *)
IsMedalOrMissing(m) == m \in ValidMedals \cup {NaN}

(* Series.isin(['Gold', 'Silver', 'Bronze']) on one value. *)
IsMedal(m) == m \in ValidMedals

Keep(row) == IsMedal(row.Medal)

(* df[df['Medal'].isin([...])].copy() *)
FilterMedals(rows) == SelectSeq(rows, Keep)

Relay == <<"R","e","l","a","y">>

RECURSIVE FindFrom(_, _, _)
FindFrom(needle, s, i) ==
  IF i + Len(needle) - 1 > Len(s) THEN FALSE
  ELSE IF SubSeq(s, i, i + Len(needle) - 1) = needle THEN TRUE
  ELSE FindFrom(needle, s, i + 1)

(* Python's `needle in s` on strings. *)
Contains(needle, s) == FindFrom(needle, s, 1)

(* variant of EventType: the match ignores the case of the first letter *)
EventTypeAnyCase(event) ==
  IF Contains(Relay, event) \/ Contains(<<"r","e","l","a","y">>, event)
  THEN "Team (Relay)" ELSE "Individual"

EventType(event) == IF Contains(Relay, event) THEN "Team (Relay)" ELSE "Individual"

AddEventType(rows) ==
  [k \in DOMAIN rows |->
     [Year |-> rows[k].Year, Event |-> rows[k].Event, Medal |-> rows[k].Medal,
      Event_Type |-> EventType(rows[k].Event)]]

RECURSIVE SortedSeq(_)
(* sorted(...) of a set of integers, ascending. *)
SortedSeq(S) ==
  IF S = {} THEN <<>>
  ELSE LET m == CHOOSE x \in S : \A y \in S : x <= y
       IN <<m>> \o SortedSeq(S \ {m})

(* df['Year'].unique() *)
UniqueYears(rows) == {rows[k].Year : k \in DOMAIN rows}

Size(rows, year, medal) ==
  Cardinality({k \in DOMAIN rows : rows[k].Year = year /\ rows[k].Medal = medal})

(* df.groupby(['Year', 'Medal']).size().unstack(fill_value=0)               *)
(*   .reindex(columns=['Gold', 'Silver', 'Bronze'], fill_value=0):          *)
(* one row per year that has a row in df, index sorted by year.             *)
MedalCounts(rows) ==
  LET idx == SortedSeq(UniqueYears(rows))
  IN [i \in DOMAIN idx |->
        [Year |-> idx[i],
         Gold |-> Size(rows, idx[i], "Gold"),
         Silver |-> Size(rows, idx[i], "Silver"),
         Bronze |-> Size(rows, idx[i], "Bronze")]]

RECURSIVE SumUpTo(_, _, _, _)
(* medal_counts.loc[:year].sum()[medal]: the label slice of a sorted index *)
(* takes the rows whose label is <= year, the end label included.          *)
SumUpTo(counts, year, medal, i) ==
  IF i > Len(counts) THEN 0
  ELSE IF counts[i].Year > year THEN 0
  ELSE counts[i][medal] + SumUpTo(counts, year, medal, i + 1)

(* variants of Cumulative: the end label left out; the year's own row only *)
CumulativeExclusive(counts, year, medal) == SumUpTo(counts, year - 1, medal, 1)

CumulativeYearOnly(counts, year, medal) ==
  SumUpTo(counts, year, medal, 1) - SumUpTo(counts, year - 1, medal, 1)

Cumulative(counts, year, medal) == SumUpTo(counts, year, medal, 1)

Digits == <<"0", "1", "2", "3", "4", "5", "6", "7", "8", "9">>

RECURSIVE Str(_)
(* str(n) for a non-negative integer, as a sequence of characters. *)
Str(n) == IF n < 10 THEN <<Digits[n + 1]>> ELSE Str(n \div 10) \o <<Digits[(n % 10) + 1]>>

(* s[:n] *)
Take(s, n) == SubSeq(s, 1, IF n < Len(s) THEN n ELSE Len(s))

(* variant of NewList: the list of the previous call is kept *)
NewListStale(old) == old

(* `frames = []`, `animation_frames = []`: a new list, whatever the name   *)
(* was bound to before.                                                     *)
NewList(old) == <<>>

RECURSIVE BuildFrames(_, _, _, _)
(* for i, year in enumerate(years): frames.append({...}) *)
BuildFrames(acc, counts, years, i) ==
  IF i > Len(years) THEN acc
  ELSE BuildFrames(Append(acc, [Year |-> years[i],
                                Gold |-> Cumulative(counts, years[i], "Gold"),
                                Silver |-> Cumulative(counts, years[i], "Silver"),
                                Bronze |-> Cumulative(counts, years[i], "Bronze")]),
                   counts, years, i + 1)

(* The order of `for medal in ['Bronze', 'Silver', 'Gold']`. *)
TraceOrder == <<"Bronze", "Silver", "Gold">>

(* text=[int(v) if v > 0 else '' for v in y_vals], as displayed text *)
BarText(v) == IF v > 0 THEN Str(v) ELSE <<>>

(* fig.add_trace(go.Bar(name=medal, x=[str(years[0])], y=[frame_df.iloc[0][medal]], ...)) *)
InitialTraces(frame_df, years) ==
  [j \in DOMAIN TraceOrder |->
     [name |-> TraceOrder[j],
      x |-> <<Str(years[1])>>,
      y |-> <<frame_df[1][TraceOrder[j]]>>,
      text |-> <<Str(frame_df[1][TraceOrder[j]])>>]]

(* variant of FrameSlice: the slice ends one row early *)
FrameSliceShort(s, i) == Take(s, i)

(* years[:i+1] and frame_df.iloc[:i+1] for the 0-based row label i *)
FrameSlice(s, i) == Take(s, i + 1)

FrameData(frame_df, years, i) ==
  [j \in DOMAIN TraceOrder |->
     LET y_vals == [k \in DOMAIN FrameSlice(frame_df, i) |-> frame_df[k][TraceOrder[j]]]
     IN [x |-> [k \in DOMAIN FrameSlice(years, i) |-> Str(years[k])],
         y |-> y_vals,
         text |-> [k \in DOMAIN y_vals |-> BarText(y_vals[k])]]]

RECURSIVE BuildAnimation(_, _, _, _)
(* for i, row in frame_df.iterrows(): animation_frames.append(go.Frame(...)) *)
BuildAnimation(acc, frame_df, years, i) ==
  IF i >= Len(frame_df) THEN acc
  ELSE BuildAnimation(Append(acc, [name |-> Str(frame_df[i + 1].Year),
                                   data |-> FrameData(frame_df, years, i)]),
                      frame_df, years, i + 1)

(* df['Event_Type'].value_counts(): the count of each tag that occurs *)
ValueCounts(rows) ==
  [t \in {rows[k].Event_Type : k \in DOMAIN rows} |->
     Cardinality({k \in DOMAIN rows : rows[k].Event_Type = t})]

(* ---------- src/data/app.py helpers ---------- *)

(* pd.to_datetime of a Date cell: a timestamp, here the day key yyyymmdd,  *)
(* which orders as the timestamps do.                                       *)
ToDatetime(cell) == cell[1] * 10000 + cell[2] * 100 + cell[3]

(* Series.dt.year *)
DtYear(dt) == dt \div 10000

ParseDates(rows) ==
  [k \in DOMAIN rows |-> [rows[k] EXCEPT !.Date = ToDatetime(rows[k].Date)]]

RECURSIVE InsertByDate(_, _)
InsertByDate(sorted, row) ==
  IF sorted = <<>> THEN <<row>>
  ELSE IF sorted[Len(sorted)].Date <= row.Date THEN Append(sorted, row)
  ELSE Append(InsertByDate(SubSeq(sorted, 1, Len(sorted) - 1), row), sorted[Len(sorted)])

RECURSIVE SortValuesByDate(_)
(* df.sort_values('Date'): ascending; on tables this small numpy sorts by  *)
(* insertion, which keeps rows with equal dates in their original order.    *)
SortValuesByDate(rows) ==
  IF rows = <<>> THEN <<>>
  ELSE InsertByDate(SortValuesByDate(SubSeq(rows, 1, Len(rows) - 1)), rows[Len(rows)])

(* range(1, len(df) + 1)[k-1] *)
RangeFrom1(k) == k

TimelinePrep(table) ==
  LET sorted == SortValuesByDate(ParseDates(ReadCsv(table)))
  IN [k \in DOMAIN sorted |->
        [Date |-> sorted[k].Date, Event |-> sorted[k].Event, Medal |-> sorted[k].Medal,
         Year |-> DtYear(sorted[k].Date), Medal_Count |-> RangeFrom1(k)]]

(* px.scatter(df, x="Date", y="Medal_Count", animation_frame="Year", ...)  *)
(* with the axes fixed by update_layout: one animation frame per year.      *)
PhelpsViz(rows) ==
  [frames |-> SortedSeq({rows[k].Year : k \in DOMAIN rows}),
   ytitle |-> "Total Medals Earned",
   yaxis_range |-> <<0, 30>>]

(* ---------- state ---------- *)

VARIABLES
  script,        \* which script runs: "app" (src/app.py) or "timeline" (src/data/app.py)
  fileExists,    \* the CSV file the script reads is present
  csv,           \* its rows
  pc,            \* position of main() in the render pass
  data,          \* main: data
  frame_df,      \* create_cumulative_stacked_chart: frames / frame_df
  fig,           \* create_cumulative_stacked_chart: fig.data and fig.frames
  type_counts,   \* create_event_type_histogram: type_counts
  viz,           \* src/data/app.py main: viz
  rendered,      \* elements written to the page in this pass, in order
  loads,         \* calls of load_and_prep_data in this pass
  exception,     \* the exception in flight or that ended the pass, or "none"
  seen           \* an earlier finished pass: its table and its derived rows

vars == <<script, fileExists, csv, pc, data, frame_df, fig, type_counts, viz,
          rendered, loads, exception, seen>>

NotSeen == [table |-> <<>>, script |-> "none", out |-> <<>>]

NoFig == [data |-> <<>>, frames |-> <<>>]
NoViz == [frames |-> <<>>, ytitle |-> "", yaxis_range |-> <<>>]
NoCounts == [t \in {} |-> 0]

Locals0 ==
  /\ pc = "main"
  /\ data = <<>>
  /\ frame_df = <<>>
  /\ fig = NoFig
  /\ type_counts = NoCounts
  /\ viz = NoViz
  /\ rendered = <<>>
  /\ loads = 0
  /\ exception = "none"
  /\ seen = NotSeen

Files(appTables, timelineTables) ==
  \/ script = "app" /\ fileExists = TRUE /\ csv \in appTables
  \/ script = "timeline" /\ fileExists = TRUE /\ csv \in timelineTables
  \/ script \in {"app", "timeline"} /\ fileExists = FALSE /\ csv = <<>>

Init == Files(Tables, TimelineTables) /\ Locals0

(* read_csv raises FileNotFoundError when the file is absent *)
ReadError(exists) == IF exists THEN "none" ELSE "FileNotFoundError"

(* variant of Catches: the except clause names another exception *)
CatchesOther(exc) == exc = "KeyError"

(* `except FileNotFoundError:` of src/app.py main *)
Catches(exc) == exc = "FileNotFoundError"

(* `except FileNotFoundError:` of src/data/app.py main *)
TimelineCatches(exc) == exc = "FileNotFoundError"

(* ---------- src/app.py ---------- *)

(* main, before the try block: title, hero image, intro, panorama *)
MainIntro ==
  /\ script = "app" /\ pc = "main"
  /\ rendered' = rendered \o <<"title", "image", "markdown", "image">>
  /\ pc' = "load"
  /\ UNCHANGED <<script, fileExists, csv, data, frame_df, fig, type_counts, viz,
                 loads, exception, seen>>

(* data = load_and_prep_data() *)
LoadAndPrepData ==
  /\ script = "app" /\ pc = "load"
  /\ loads' = loads + 1
  /\ IF ReadError(fileExists) = "none"
       THEN /\ data' = AddEventType(FilterMedals(ReadCsv(csv)))
            /\ pc' = "chart"
            /\ UNCHANGED exception
       ELSE /\ exception' = ReadError(fileExists)
            /\ pc' = "raise"
            /\ UNCHANGED data
  /\ UNCHANGED <<script, fileExists, csv, frame_df, fig, type_counts, viz, rendered, seen>>

(* stacked_chart = create_cumulative_stacked_chart(data); st.plotly_chart  *)
(* years[0] and frame_df.iloc[0] raise IndexError when no medal row is left *)
CreateCumulativeStackedChart ==
  /\ script = "app" /\ pc = "chart"
  /\ LET medal_counts == MedalCounts(data)
         years == SortedSeq(UniqueYears(data))
         frames == BuildFrames(NewList(frame_df), medal_counts, years, 1)
     IN /\ frame_df' = frames
        /\ IF years = <<>>
             THEN /\ exception' = "IndexError"
                  /\ pc' = "raise"
                  /\ rendered' = rendered \o <<"markdown", "markdown">>
                  /\ UNCHANGED fig
             ELSE /\ fig' = [data |-> InitialTraces(frames, years),
                             frames |-> BuildAnimation(NewList(fig.frames), frames, years, 0)]
                  /\ pc' = "histogram"
                  /\ rendered' = rendered \o <<"markdown", "markdown", "plotly_chart", "divider">>
                  /\ UNCHANGED exception
  /\ UNCHANGED <<script, fileExists, csv, data, type_counts, viz, loads, seen>>

(* histogram = create_event_type_histogram(data); st.plotly_chart *)
CreateEventTypeHistogram ==
  /\ script = "app" /\ pc = "histogram"
  /\ type_counts' = ValueCounts(data)
  /\ rendered' = rendered \o <<"markdown", "markdown", "plotly_chart", "divider">>
  /\ pc' = "preview"
  /\ UNCHANGED <<script, fileExists, csv, data, frame_df, fig, viz, loads, exception, seen>>

(* the "Show Medal Data" button, the data table and the footer *)
DataPreview ==
  /\ script = "app" /\ pc = "preview"
  /\ \E clicked \in BOOLEAN :
       rendered' = rendered \o <<"markdown", "button">>
                     \o (IF clicked THEN <<"dataframe">> ELSE <<>>)
                     \o <<"divider", "markdown">>
  /\ pc' = "done"
  /\ UNCHANGED <<script, fileExists, csv, data, frame_df, fig, type_counts, viz,
                 loads, exception, seen>>

(* the exception leaves the try block: the except clause or the caller *)
MainExcept ==
  /\ script = "app" /\ pc = "raise"
  /\ IF Catches(exception)
       THEN /\ rendered' = Append(rendered, "error")
            /\ pc' = "done"
       ELSE /\ pc' = "uncaught"
            /\ UNCHANGED rendered
  /\ UNCHANGED <<script, fileExists, csv, data, frame_df, fig, type_counts, viz,
                 loads, exception, seen>>

(* ---------- src/data/app.py ---------- *)

(* main, before the try block: page config, title, intro *)
TimelineIntro ==
  /\ script = "timeline" /\ pc = "main"
  /\ rendered' = rendered \o <<"title", "markdown">>
  /\ pc' = "load"
  /\ UNCHANGED <<script, fileExists, csv, data, frame_df, fig, type_counts, viz,
                 loads, exception, seen>>

(* data = load_and_prep_data() *)
TimelineLoadAndPrepData ==
  /\ script = "timeline" /\ pc = "load"
  /\ loads' = loads + 1
  /\ IF ReadError(fileExists) = "none"
       THEN /\ data' = TimelinePrep(csv)
            /\ pc' = "viz"
            /\ UNCHANGED exception
       ELSE /\ exception' = ReadError(fileExists)
            /\ pc' = "raise"
            /\ UNCHANGED data
  /\ UNCHANGED <<script, fileExists, csv, frame_df, fig, type_counts, viz, rendered, seen>>

(* sidebar metrics; viz = create_phelps_viz(data); st.plotly_chart *)
CreatePhelpsViz ==
  /\ script = "timeline" /\ pc = "viz"
  /\ viz' = PhelpsViz(data)
  /\ rendered' = rendered \o <<"sidebar", "plotly_chart">>
  /\ pc' = "raw"
  /\ UNCHANGED <<script, fileExists, csv, data, frame_df, fig, type_counts,
                 loads, exception, seen>>

(* the "Show Raw Medal Data" checkbox and the data table *)
TimelineRawData ==
  /\ script = "timeline" /\ pc = "raw"
  /\ \E checked \in BOOLEAN :
       rendered' = Append(rendered, "checkbox") \o (IF checked THEN <<"dataframe">> ELSE <<>>)
  /\ pc' = "done"
  /\ UNCHANGED <<script, fileExists, csv, data, frame_df, fig, type_counts, viz,
                 loads, exception, seen>>

TimelineExcept ==
  /\ script = "timeline" /\ pc = "raise"
  /\ IF TimelineCatches(exception)
       THEN /\ rendered' = Append(rendered, "error")
            /\ pc' = "done"
       ELSE /\ pc' = "uncaught"
            /\ UNCHANGED rendered
  /\ UNCHANGED <<script, fileExists, csv, data, frame_df, fig, type_counts, viz,
                 loads, exception, seen>>

Next ==
  \/ MainIntro
  \/ LoadAndPrepData
  \/ CreateCumulativeStackedChart
  \/ CreateEventTypeHistogram
  \/ DataPreview
  \/ MainExcept
  \/ TimelineIntro
  \/ TimelineLoadAndPrepData
  \/ CreatePhelpsViz
  \/ TimelineRawData
  \/ TimelineExcept

Spec == Init /\ [][Next]_vars

(* ---------- repeated render passes ---------- *)

MaxPureRows == 2
PureRows == [Year : {2000, 2004}, Event : {MedleyRelay}, Medal : {"Gold", "None"}]
PureTables == SeqsUpTo(PureRows, MaxPureRows)
PureTimelineRows ==
  [Date : {d \in DateCells : d[1] = 2000}, Event : TimelineEvents, Medal : {"Gold"}]
PureTimelineTables == SeqsUpTo(PureTimelineRows, MaxPureRows)

(* the derived rows of a finished pass *)
Output == IF script = "app" THEN <<data, frame_df, fig>> ELSE <<data>>

(* Streamlit runs the script again (any interaction); the file may have    *)
(* changed in between.  The objects of the finished pass stay as they are   *)
(* until the new pass binds the names again.  seen may record the finished  *)
(* pass.                                                                    *)
Rerun ==
  /\ pc \in {"done", "uncaught"}
  /\ pc' = "main"
  /\ rendered' = <<>>
  /\ loads' = 0
  /\ exception' = "none"
  /\ \/ fileExists' = TRUE
        /\ csv' \in (IF script = "app" THEN PureTables ELSE PureTimelineTables)
     \/ fileExists' = FALSE /\ csv' = <<>>
  /\ \/ seen' = seen
     \/ /\ seen.script = "none" /\ pc = "done" /\ fileExists
        /\ seen' = [table |-> csv, script |-> script, out |-> Output]
  /\ UNCHANGED <<script, data, frame_df, fig, type_counts, viz>>

InitPure == Files(PureTables, PureTimelineTables) /\ Locals0

NextPure == Next \/ Rerun

SpecPure == InitPure /\ [][NextPure]_vars

(* ---------- properties ---------- *)

(* the cumulative chart of src/app.py has been built in this pass *)
ChartBuilt ==
  script = "app" /\ exception = "none" /\ pc \in {"histogram", "preview", "done"}

(* rows of the table whose Medal cell is exactly the rank r, up to year y *)
RankRowsUpTo(r, y) == {k \in DOMAIN csv : csv[k].Medal = r /\ csv[k].Year <= y}

RankRows(r) == {k \in DOMAIN csv : csv[k].Medal = r}

MedalRows == {k \in DOMAIN csv : csv[k].Medal \in ValidMedals}

(* C1: the cumulative fold is an inclusive prefix sum: the total emitted   *)
(* for a year and a rank is the number of medals of that rank won in all   *)
(* years up to and including that year, and the last year's total is the   *)
(* number of all medals of that rank.                                       *)
C1_InclusivePrefixSum ==
  ChartBuilt =>
    /\ \A i \in DOMAIN frame_df : \A r \in ValidMedals :
         frame_df[i][r] = Cardinality(RankRowsUpTo(r, frame_df[i].Year))
    /\ \A r \in ValidMedals :
         frame_df[Len(frame_df)][r] = Cardinality(RankRows(r))

C1_Witness ==
  /\ ChartBuilt
  /\ Len(frame_df) = 2
  /\ frame_df[1].Gold = 1
  /\ frame_df[2].Gold = 2

(* C2: every year present in the loaded table, also a year whose rows are  *)
(* all non-medal rows, has an entry in the per-year medal view.             *)
C2_NoCompetedYearDropped ==
  ChartBuilt =>
    \A k \in DOMAIN csv : \E i \in DOMAIN frame_df : frame_df[i].Year = csv[k].Year

(* C3: the cumulative totals never decrease from one emitted year to the   *)
(* next, for each rank.                                                     *)
C3_NonDecreasing ==
  ChartBuilt =>
    \A i \in 1..(Len(frame_df) - 1) :
      /\ frame_df[i].Year < frame_df[i + 1].Year
      /\ \A r \in ValidMedals : frame_df[i + 1][r] >= frame_df[i][r]

C3_Witness ==
  /\ ChartBuilt
  /\ Len(frame_df) = 2
  /\ frame_df[1].Gold = 1
  /\ frame_df[2].Gold = 1
  /\ frame_df[2].Bronze = 1

(* the event name has the substring "Relay" *)
HasRelay(e) == \E i \in 1..Len(e) : i + 4 <= Len(e) /\ SubSeq(e, i, i + 4) = Relay

EventTypes == {"Team (Relay)", "Individual"}

CountOf(t) == IF t \in DOMAIN type_counts THEN type_counts[t] ELSE 0

(* C4: a row whose Medal cell is not exactly Gold, Silver or Bronze counts *)
(* nowhere: the loaded rows, the cumulative totals and the event-type      *)
(* counts cover the rows with a valid rank and no other.                    *)
C4_NonMedalRowsCountNowhere ==
  /\ (script = "app" /\ fileExists /\ pc \notin {"main", "load"}) =>
       /\ Len(data) = Cardinality(MedalRows)
       /\ \A i \in DOMAIN data : data[i].Medal \in ValidMedals
  /\ ChartBuilt =>
       /\ frame_df[Len(frame_df)].Gold + frame_df[Len(frame_df)].Silver
            + frame_df[Len(frame_df)].Bronze = Cardinality(MedalRows)
       /\ {frame_df[i].Year : i \in DOMAIN frame_df} = {csv[k].Year : k \in MedalRows}
  /\ (ChartBuilt /\ pc \in {"preview", "done"}) =>
       \A t \in EventTypes :
         CountOf(t) = Cardinality({k \in MedalRows :
                                    (t = "Team (Relay)") <=> HasRelay(csv[k].Event)})

C4_Witness ==
  /\ script = "app" /\ pc = "done"
  /\ Len(csv) = 2
  /\ Cardinality(MedalRows) = 1
  /\ \E k \in DOMAIN csv : csv[k].Medal = "None" /\ HasRelay(csv[k].Event)
  /\ Len(data) = 1 /\ Len(frame_df) = 1
  /\ CountOf("Individual") = 1 /\ CountOf("Team (Relay)") = 0

(* C5: every loaded record has exactly one event-type tag, "Team (Relay)"  *)
(* exactly when its event name contains "Relay" with this capitalisation,  *)
(* "Individual" otherwise.                                                  *)
C5_EventTypeTag ==
  (script = "app" /\ fileExists /\ pc \notin {"main", "load"}) =>
    \A i \in DOMAIN data :
      /\ data[i].Event_Type \in EventTypes
      /\ (data[i].Event_Type = "Team (Relay)") <=> HasRelay(data[i].Event)
      /\ (data[i].Event = MedleyRelay) => (data[i].Event_Type = "Team (Relay)")
      /\ (data[i].Event = Butterfly) => (data[i].Event_Type = "Individual")

C5_Witness ==
  /\ script = "app" /\ pc = "done"
  /\ \E i \in DOMAIN data : data[i].Event = MedleyRelay /\ data[i].Event_Type = "Team (Relay)"
  /\ \E i \in DOMAIN data : data[i].Event = Butterfly /\ data[i].Event_Type = "Individual"

Shown(what) == \E i \in DOMAIN rendered : rendered[i] = what

StackingOrder == <<"None", "Bronze", "Silver", "Gold">>

(* the number a string of digits denotes *)
RECURSIVE Num(_)
Num(str) ==
  IF str = <<>> THEN 0
  ELSE 10 * Num(SubSeq(str, 1, Len(str) - 1))
         + (CHOOSE d \in 0..9 : Digits[d + 1] = str[Len(str)])

(* C7: the output is in ascending order of year, and within a year the     *)
(* ranks are emitted in the order None, Bronze, Silver, Gold, in the       *)
(* initial chart and in every animation frame.                              *)
C7_StackingOrder ==
  ChartBuilt =>
    /\ \A i \in 1..(Len(frame_df) - 1) : frame_df[i].Year < frame_df[i + 1].Year
    /\ [j \in DOMAIN fig.data |-> fig.data[j].name] = StackingOrder
    /\ \A f \in DOMAIN fig.frames :
         /\ Len(fig.frames[f].data) = Len(StackingOrder)
         /\ \A j \in DOMAIN fig.frames[f].data :
              \A k \in 1..(Len(fig.frames[f].data[j].x) - 1) :
                Num(fig.frames[f].data[j].x[k]) < Num(fig.frames[f].data[j].x[k + 1])

(* C8: two finished passes over the same table have the same derived rows  *)
(* in the same order, whatever passes ran in between.                       *)
C8_SameTableSameRows ==
  (pc = "done" /\ fileExists /\ seen.script = script /\ seen.table = csv) =>
    Output = seen.out

C8_Witness ==
  /\ pc = "done" /\ fileExists /\ script = "app"
  /\ seen.script = "app" /\ seen.table = csv
  /\ Len(frame_df) = 2
  /\ Len(fig.frames) = 2

TimelineLoaded == script = "timeline" /\ fileExists /\ pc \in {"viz", "raw", "done"}

(* C9: the rows load_and_prep_data of the timeline script returns are in   *)
(* non-decreasing Date order, the k-th row has Medal_Count = k, which is   *)
(* the number of medals earned up to and including that row, and the last  *)
(* row's Medal_Count is the number of medals in the table.                  *)
C9_MedalCountIsMedals ==
  TimelineLoaded =>
    /\ \A k \in 1..(Len(data) - 1) : data[k].Date <= data[k + 1].Date
    /\ \A k \in DOMAIN data :
         /\ data[k].Medal_Count = k
         /\ data[k].Medal_Count
              = Cardinality({j \in 1..k : data[j].Medal \in ValidMedals})
    /\ (data # <<>>) => (data[Len(data)].Medal_Count = Cardinality(MedalRows))

(* C10: one animation frame per emitted year; frame i (from 0) shows the   *)
(* first i+1 years in ascending order with their cumulative totals, and    *)
(* what a frame shows is shown unchanged by the next frame.                 *)
C10_FramesGrowByOneYear ==
  ChartBuilt =>
    /\ Len(fig.frames) = Len(frame_df)
    /\ \A f \in DOMAIN fig.frames : \A j \in DOMAIN TraceOrder :
         LET bar == fig.frames[f].data[j]
         IN /\ Len(bar.x) = f /\ Len(bar.y) = f
            /\ \A k \in 1..f :
                 /\ Num(bar.x[k]) = frame_df[k].Year
                 /\ bar.y[k] = Cardinality(RankRowsUpTo(TraceOrder[j], frame_df[k].Year))
            /\ \A k \in 1..(f - 1) : Num(bar.x[k]) < Num(bar.x[k + 1])
            /\ (f < Len(fig.frames)) =>
                 /\ bar.x = SubSeq(fig.frames[f + 1].data[j].x, 1, f)
                 /\ bar.y = SubSeq(fig.frames[f + 1].data[j].y, 1, f)

C10_Witness ==
  /\ ChartBuilt
  /\ Len(fig.frames) = 2
  /\ fig.frames[1].data[3].y = <<1>>
  /\ fig.frames[2].data[3].y = <<1, 2>>
  /\ fig.frames[2].data[3].x = <<<<"2", "0", "0", "0">>, <<"2", "0", "0", "4">>>>

====
